---- MODULE Spec2Model ----
(***************************************************************************)
(* The OpenCensus tracer of Envoy                                          *)
(* (source/extensions/tracers/opencensus/opencensus_tracer_impl.cc):       *)
(* the Driver, which applies the trace configuration to the process-wide   *)
(* TraceParams and registers the exporters, and the Span wrapper, which    *)
(* forwards every operation to an ::opencensus::trace::Span.               *)
(*                                                                         *)
(* The wrapper keeps two fields (span_, oc_config_); everything else is    *)
(* state of the OpenCensus library it calls: the span's context, its       *)
(* recorded attributes and annotations, the ended flag, the process-wide   *)
(* TraceParams, the exporter registry and the queue of spans handed to the *)
(* exporters.  Each library call is modelled at its call site by the       *)
(* library's behaviour for that call; the definitions say where.           *)
(***************************************************************************)
EXTENDS Integers, Sequences, FiniteSets, TLC

VARIABLES
    aborted,      \* the process was aborted by a failed assert()
    traceParams,  \* ::opencensus::trace::TraceConfig, process-wide
    exporters,    \* the library's exporter registry, in registration order
    drivers,      \* the constructed Drivers: each one's oc_config_
    spans,        \* the Spans created so far, in creation order
    sink,         \* span records handed to the exporters by Span::End()
    headers,      \* the Http::HeaderMap the host currently passes in
    delivered,    \* per exporter, the spans its handler has received
    unreachable,  \* the exporters whose backend cannot be reached
    calls         \* per execution context, its Driver::startSpan call in progress

vars == <<aborted, traceParams, exporters, drivers, spans, sink, headers,
          delivered, unreachable, calls>>

----------------------------------------------------------------------------
(* Bounds of the model. *)

MaxDrivers == 1
MaxSpans == 2
MaxAnnotations == 1
MaxHeaderEntries == 2
MaxListeners == 2
MaxContexts == 2

----------------------------------------------------------------------------
(* The configuration document: envoy::config::trace::v2::OpenCensusConfig  *)
(* and its opencensus::proto::trace::v1::TraceConfig.                      *)

\* Probabilities are counted in units of 1e-4: ProbabilityScale is 1.0.
ProbabilityScale == 10000

kDefaultSamplingProbability == 1

\* samplingprobability values a configuration may carry: below 0, 0, inside
\* (0,1), 1, above 1.
ProbabilityValues == {0 - 5000, 0, 5000, ProbabilityScale, 15000}

\* An int64 limit of the configuration, hi * 2^32 + lo with lo < 2^32, kept
\* as its two 32-bit halves.
Int64(hi, lo) == [hi |-> hi, lo |-> lo]

\* The limits a configuration may carry: unset (0), 2, 2^32 and 2^32 + 2.
LimitValues == {Int64(0, 0), Int64(0, 2), Int64(1, 0), Int64(1, 2)}

SamplerCases ==
    {"kProbabilitySampler", "kConstantSampler", "kRateLimitingSampler",
     "SAMPLER_NOT_SET", "kUnknownSampler"}

\* A oneof field that is not the set one reads as its default (0, false).
Samplers ==
    [sampler_case : {"kProbabilitySampler"}, samplingprobability : ProbabilityValues,
     decision : {FALSE}]
    \cup [sampler_case : {"kConstantSampler"}, samplingprobability : {0},
          decision : BOOLEAN]
    \cup [sampler_case : SamplerCases \ {"kProbabilitySampler", "kConstantSampler"},
          samplingprobability : {0}, decision : {FALSE}]

Limits(values) ==
    [max_number_of_attributes : values, max_number_of_annotations : values,
     max_number_of_message_events : values, max_number_of_links : values]

TraceConfigOf(sampler, limits) ==
    [sampler_case |-> sampler.sampler_case,
     samplingprobability |-> sampler.samplingprobability,
     decision |-> sampler.decision,
     max_number_of_attributes |-> limits.max_number_of_attributes,
     max_number_of_annotations |-> limits.max_number_of_annotations,
     max_number_of_message_events |-> limits.max_number_of_message_events,
     max_number_of_links |-> limits.max_number_of_links]

NoTraceConfig ==
    TraceConfigOf([sampler_case |-> "SAMPLER_NOT_SET", samplingprobability |-> 0,
                   decision |-> FALSE],
                  [max_number_of_attributes |-> Int64(0, 0),
                   max_number_of_annotations |-> Int64(0, 0),
                   max_number_of_message_events |-> Int64(0, 0),
                   max_number_of_links |-> Int64(0, 0)])

TraceConfigs(limitValues) ==
    {TraceConfigOf(s, l) : s \in Samplers, l \in Limits(limitValues)}

OcConfigOf(has, tc, exp, prop) ==
    [has_trace_config |-> has,
     trace_config |-> IF has THEN tc ELSE NoTraceConfig,
     stdout_exporter_enabled |-> "stdout" \in exp,
     stackdriver_exporter_enabled |-> "stackdriver" \in exp,
     zipkin_exporter_enabled |-> "zipkin" \in exp,
     propagate_cloud_trace_context |-> "x-cloud-trace-context" \in prop,
     propagate_trace_context |-> "traceparent" \in prop,
     propagate_grpc_trace_bin |-> "grpc-trace-bin" \in prop]

ExporterNames == {"stdout", "stackdriver", "zipkin"}

HeaderNames == {"x-cloud-trace-context", "traceparent", "grpc-trace-bin"}

\* The documents the span life cycle is explored under: the samplers
\* constant(false), constant(true) and probability(0.5), limits of 2, the
\* three exporters, no propagation format.
SpanOcConfigs ==
    {OcConfigOf(TRUE, TraceConfigOf(s, l), ExporterNames, {}) :
        s \in {x \in Samplers : x.sampler_case = "kConstantSampler"
                                 \/ x.samplingprobability = 5000},
        l \in Limits({Int64(0, 2)})}

\* The documents header injection is explored under: every set of
\* propagation formats.
InjectOcConfigs ==
    {OcConfigOf(FALSE, NoTraceConfig, {}, prop) : prop \in SUBSET HeaderNames}

\* The documents Driver construction is explored under: every sampler, with
\* and without a trace configuration, every set of exporters, and limits
\* that are unset, small, or 2^32 and above.
DriverOcConfigs ==
    {OcConfigOf(has, TraceConfigOf(s, l), exp, {}) :
        has \in BOOLEAN, s \in Samplers,
        l \in Limits({Int64(0, 0)}) \cup Limits({Int64(0, 2)})
                 \cup Limits({Int64(1, 2)}),
        exp \in SUBSET ExporterNames}

\* The documents of a host that constructs one Driver per listener: the
\* samplers constant(false) with limits of 1 and constant(true) with limits
\* of 2, each with one of two sets of propagation formats.
ListenerOcConfigs ==
    {OcConfigOf(TRUE,
                TraceConfigOf([sampler_case |-> "kConstantSampler",
                               samplingprobability |-> 0, decision |-> dec],
                              CHOOSE l \in Limits({Int64(0, IF dec THEN 2 ELSE 1)}) : TRUE),
                {}, prop) :
        dec \in BOOLEAN,
        prop \in {{"traceparent"}, {"x-cloud-trace-context", "grpc-trace-bin"}}}

----------------------------------------------------------------------------
(* Driver::applyTraceConfig and the Driver constructor.                    *)

\* uint32_t(x) of a non-negative int64: its low 32 bits.
uint32_t(x) == x.lo

\* ::opencensus::trace::ProbabilitySampler(probability): the sampler built
\* from the probability handed in.  The model keeps that value as it is;
\* ShouldSample below reads it the way the library's threshold does.
ProbabilitySampler(probability) == [probability |-> probability]

\* As SelectedProbability, without the case of the constant sampler.
SelectedProbability_ConstantIgnored(config) ==
    CASE config.sampler_case = "kProbabilitySampler" -> config.samplingprobability
      [] OTHER -> kDefaultSamplingProbability

\* The probability applyTraceConfig's switch selects.
SelectedProbability(config) ==
    CASE config.sampler_case = "kProbabilitySampler" -> config.samplingprobability
      [] config.sampler_case = "kConstantSampler" ->
            IF config.decision THEN 1 * ProbabilityScale ELSE 0
      [] config.sampler_case = "kRateLimitingSampler" -> kDefaultSamplingProbability
      [] config.sampler_case = "SAMPLER_NOT_SET" -> kDefaultSamplingProbability
      [] OTHER -> kDefaultSamplingProbability

\* The TraceParams applyTraceConfig hands to SetCurrentTraceParams.
applyTraceConfig(config) ==
    [max_attributes |-> uint32_t(config.max_number_of_attributes),
     max_annotations |-> uint32_t(config.max_number_of_annotations),
     max_message_events |-> uint32_t(config.max_number_of_message_events),
     max_links |-> uint32_t(config.max_number_of_links),
     sampler |-> ProbabilitySampler(SelectedProbability(config))]

\* The library's TraceParams before any SetCurrentTraceParams: the limits
\* 32, 32, 128, 128 and ProbabilitySampler(1e-4).
DefaultTraceParams ==
    [max_attributes |-> 32, max_annotations |-> 32, max_message_events |-> 128,
     max_links |-> 128, sampler |-> ProbabilitySampler(kDefaultSamplingProbability)]

\* The Register() calls of the constructor, in its order.
RegisteredBy(oc_config) ==
    (IF oc_config.stdout_exporter_enabled THEN <<"stdout">> ELSE <<>>)
    \o (IF oc_config.stackdriver_exporter_enabled THEN <<"stackdriver">> ELSE <<>>)
    \o (IF oc_config.zipkin_exporter_enabled THEN <<"zipkin">> ELSE <<>>)

\* Driver::Driver(oc_config), for a host that constructs at most `limit`
\* Drivers.
DriverConstruct(oc_config, limit) ==
    /\ ~aborted
    /\ Len(drivers) < limit
    /\ drivers' = Append(drivers, oc_config)
    /\ traceParams' = IF oc_config.has_trace_config
                         THEN applyTraceConfig(oc_config.trace_config)
                         ELSE traceParams
    /\ exporters' = exporters \o RegisteredBy(oc_config)
    /\ UNCHANGED <<aborted, spans, sink, headers,
                 delivered, unreachable, calls>>

----------------------------------------------------------------------------
(* The OpenCensus span behind the wrapper's span_ field.                   *)

\* Sampler::ShouldSample: the decisions a sampler can return.  The
\* probability sampler never samples at a probability of 0 or less, always
\* samples at 1 or more, and decides by the trace id in between.
ShouldSample(sampler) ==
    CASE sampler = "AlwaysSampler" -> {TRUE}
      [] sampler = "NeverSampler" -> {FALSE}
      [] OTHER ->
            IF traceParams.sampler.probability <= 0 THEN {FALSE}
            ELSE IF traceParams.sampler.probability >= ProbabilityScale THEN {TRUE}
            ELSE BOOLEAN

\* The sampling decisions ::opencensus::trace::Span::StartSpan(name, parent,
\* {sampler}) can take: a sampled parent's child is sampled; otherwise the
\* given sampler decides, the TraceParams' sampler when none is given
\* ("default").  parent = 0 is nullptr.
StartSpanDecisions(parent, sampler) ==
    IF parent # 0 /\ spans[parent].context.sampled
    THEN {TRUE}
    ELSE ShouldSample(sampler)

\* The span StartSpan returns.  Trace and span ids are fresh; a child keeps
\* its parent's trace id.  Only a sampled span records (is backed by a
\* SpanImpl).
NewSpan(parent, sampled, oc_config) ==
    [context |-> [trace_id |-> IF parent = 0 THEN Len(spans) + 1
                               ELSE spans[parent].context.trace_id,
                  span_id |-> Len(spans) + 1,
                  sampled |-> sampled],
     parent |-> parent,
     recording |-> sampled,
     has_ended |-> FALSE,
     attributes |-> {},
     annotations |-> <<>>,
     oc_config_ |-> oc_config]

\* As AddAttribute, recording also after the span has ended.
AddAttribute_AfterEnd(span, key, value) ==
    IF span.recording
    THEN [span EXCEPT !.attributes =
              {a \in span.attributes : a[1] # key} \cup {<<key, value>>}]
    ELSE span

\* Span::AddAttribute(key, value): recorded while the span records and has
\* not ended; a key already present is overwritten.
AddAttribute(span, key, value) ==
    IF span.recording /\ ~span.has_ended
    THEN [span EXCEPT !.attributes =
              {a \in span.attributes : a[1] # key} \cup {<<key, value>>}]
    ELSE span

\* Span::AddAnnotation(description, attributes)
AddAnnotation(span, description, attributes) ==
    IF span.recording /\ ~span.has_ended
    THEN [span EXCEPT !.annotations = Append(@, <<description, attributes>>)]
    ELSE span

\* The record of a span handed to the exporters.
SpanData(i, span) ==
    [span |-> i, context |-> span.context, attributes |-> span.attributes,
     annotations |-> span.annotations]

----------------------------------------------------------------------------
(* The Span wrapper: the operations of Tracing::Span.                      *)

RECURSIVE Annotations(_)
\* The number of annotations the first n spans hold.
Annotations(n) ==
    IF n = 0 THEN 0 ELSE Len(spans[n].annotations) + Annotations(n - 1)

\* The model stops recording annotations at MaxAnnotations in all, and
\* before a span holds max_annotations of them: what the library drops at
\* that limit is not modelled.
CanAnnotate(s) ==
    (spans[s].recording /\ ~spans[s].has_ended)
        => /\ Annotations(Len(spans)) < MaxAnnotations
           /\ Len(spans[s].annotations) < traceParams.max_annotations

\* An attribute under this key fits the span without reaching
\* max_attributes: what the library drops at that limit is not modelled.
CanAddAttribute(attributes, key) ==
    Cardinality({a \in attributes : a[1] # key}) < traceParams.max_attributes

OperationNames == {"Ingress", "Egress"}

\* As StartSpanSampler, leaving the decision to the TraceParams' sampler.
StartSpanSampler_Default(traced) == "default"

\* StartSpan(name, traced): a root span with the always sampler when traced,
\* the never sampler otherwise.
StartSpanSampler(traced) == IF traced THEN "AlwaysSampler" ELSE "NeverSampler"

\* As StartSpanParent, continuing the trace whose context the request
\* headers hold.
StartSpanParent_FromHeaders ==
    IF headers = <<>> THEN 0
    ELSE IF headers[1][1] = "grpc-trace-bin" THEN headers[1][2][5]
    ELSE headers[1][2].span_id

\* The parent StartSpan(name, traced) passes to the library: nullptr.
StartSpanParent == 0

\* As startSpan, tagging every span "Ingress".
startSpan_AlwaysIngress(d, operationName, traced) ==
    /\ ~aborted
    /\ d \in 1..Len(drivers)
    /\ Len(spans) < MaxSpans
    /\ CanAddAttribute({}, "OperationName")
    /\ \E sampled \in StartSpanDecisions(StartSpanParent, StartSpanSampler(traced)) :
          spans' = Append(spans,
                     AddAttribute(NewSpan(StartSpanParent, sampled, d), "OperationName",
                                  "Ingress"))
    /\ UNCHANGED <<aborted, traceParams, exporters, drivers, sink, headers,
                 delivered, unreachable, calls>>

\* Driver::startSpan(config, request_headers, operation_name, start_time,
\* tracing_decision) on Driver d, with Span::Span: the span is started and
\* tagged with the role of config.operationName().
startSpan(d, operationName, traced) ==
    /\ ~aborted
    /\ d \in 1..Len(drivers)
    /\ Len(spans) < MaxSpans
    /\ CanAddAttribute({}, "OperationName")
    /\ \E sampled \in StartSpanDecisions(StartSpanParent, StartSpanSampler(traced)) :
          spans' = Append(spans,
                     AddAttribute(NewSpan(StartSpanParent, sampled, d), "OperationName",
                                  IF operationName = "Ingress" THEN "Ingress"
                                  ELSE "Egress"))
    /\ UNCHANGED <<aborted, traceParams, exporters, drivers, sink, headers,
                 delivered, unreachable, calls>>

Operations == {"op"}

\* Span::setOperation(operation)
setOperation(s, operation) ==
    /\ ~aborted
    /\ s \in 1..Len(spans)
    /\ CanAnnotate(s)
    /\ spans' = [spans EXCEPT ![s] =
                    AddAnnotation(@, "setOperation", <<"operation", operation>>)]
    /\ UNCHANGED <<aborted, traceParams, exporters, drivers, sink, headers,
                 delivered, unreachable, calls>>

TagNames == {"k"}

TagValues == {"v"}

\* Span::setTag(name, value)
setTag(s, name, value) ==
    /\ ~aborted
    /\ s \in 1..Len(spans)
    /\ CanAddAttribute(spans[s].attributes, name)
    /\ spans' = [spans EXCEPT ![s] = AddAttribute(@, name, value)]
    /\ UNCHANGED <<aborted, traceParams, exporters, drivers, sink, headers,
                 delivered, unreachable, calls>>

\* As setSampled, overriding the span's sampling decision.
setSampled_SetsFlag(s, sampled) ==
    /\ ~aborted
    /\ s \in 1..Len(spans)
    /\ spans' = [spans EXCEPT ![s].context.sampled = sampled,
                               ![s].recording = sampled]
    /\ UNCHANGED <<aborted, traceParams, exporters, drivers, sink, headers,
                 delivered, unreachable, calls>>

\* Span::setSampled(sampled)
setSampled(s, sampled) ==
    /\ ~aborted
    /\ s \in 1..Len(spans)
    /\ CanAnnotate(s)
    /\ spans' = [spans EXCEPT ![s] =
                    AddAnnotation(@, "setSampled", <<"sampled", sampled>>)]
    /\ UNCHANGED <<aborted, traceParams, exporters, drivers, sink, headers,
                 delivered, unreachable, calls>>

\* What Span::End() does to a recording span that has already ended:
\* SpanImpl::End() holds assert(false && "Invalid attempt to End() the same
\* Span more than once.") and, past it, ignores the call.  A build that
\* keeps assert() aborts the process there; a build with NDEBUG goes on.
RepeatedEndAborts == BOOLEAN

\* As finishSpan, marking the span ended without handing it over.
finishSpan_HandsOverNothing(s) ==
    /\ ~aborted
    /\ s \in 1..Len(spans)
    /\ spans' = [spans EXCEPT ![s].has_ended = spans[s].recording]
    /\ UNCHANGED <<aborted, traceParams, exporters, drivers, sink, headers,
                   delivered, unreachable, calls>>

\* Span::finishSpan(): span_.End().  A span that does not record has nothing
\* to end; a recording span is marked ended and handed to the exporters, once.
finishSpan(s) ==
    /\ ~aborted
    /\ s \in 1..Len(spans)
    /\ IF ~spans[s].recording
       THEN UNCHANGED <<spans, sink, aborted>>
       ELSE IF spans[s].has_ended
       THEN /\ aborted' \in RepeatedEndAborts
            /\ UNCHANGED <<spans, sink>>
       ELSE /\ spans' = [spans EXCEPT ![s].has_ended = TRUE]
            /\ sink' = Append(sink, SpanData(s, spans[s]))
            /\ UNCHANGED aborted
    /\ UNCHANGED <<traceParams, exporters, drivers, headers,
                 delivered, unreachable, calls>>

\* As spawnChildParent, passing no parent.
spawnChildParent_Null(s) == 0

\* The parent Span::spawnChild passes to the library: its own span_.
spawnChildParent(s) == s

\* As spawnChildSampler, passing the always sampler.
spawnChildSampler_Always == "AlwaysSampler"

\* The sampler Span::spawnChild passes to the library: none, which selects
\* the TraceParams' sampler.
spawnChildSampler == "default"

\* As spawnChild, handing the child the document of the Driver constructed
\* last instead of this span's oc_config_.
spawnChild_LatestConfig(s) ==
    /\ ~aborted
    /\ s \in 1..Len(spans)
    /\ Len(spans) < MaxSpans
    /\ CanAnnotate(s)
    /\ \E sampled \in StartSpanDecisions(spawnChildParent(s), spawnChildSampler) :
          spans' = Append([spans EXCEPT ![s] = AddAnnotation(@, "spawnChild", <<>>)],
                          NewSpan(spawnChildParent(s), sampled, Len(drivers)))
    /\ UNCHANGED <<aborted, traceParams, exporters, drivers, sink, headers,
                 delivered, unreachable, calls>>

\* Span::spawnChild(config, name, start_time): annotates this span and
\* starts a span with this span as its parent and no sampler of its own.
spawnChild(s) ==
    /\ ~aborted
    /\ s \in 1..Len(spans)
    /\ Len(spans) < MaxSpans
    /\ CanAnnotate(s)
    /\ \E sampled \in StartSpanDecisions(spawnChildParent(s), spawnChildSampler) :
          spans' = Append([spans EXCEPT ![s] = AddAnnotation(@, "spawnChild", <<>>)],
                          NewSpan(spawnChildParent(s), sampled, spans[s].oc_config_))
    /\ UNCHANGED <<aborted, traceParams, exporters, drivers, sink, headers,
                 delivered, unreachable, calls>>

----------------------------------------------------------------------------
(* Header injection.                                                       *)

\* Http::HeaderMap::addCopy(key, value): appends an entry of its own.
addCopy(request_headers, key, value) == Append(request_headers, <<key, value>>)

\* propagation::ToCloudTraceContextHeader: "<trace id>/<span id>;o=<0|1>"
ToCloudTraceContextHeader(context) ==
    [trace_id |-> context.trace_id, slash |-> "/", span_id |-> context.span_id,
     o |-> IF context.sampled THEN ";o=1" ELSE ";o=0"]

\* propagation::ToTraceParentHeader: "00-<trace id>-<span id>-<flags>"
ToTraceParentHeader(context) ==
    [version |-> "00", trace_id |-> context.trace_id, span_id |-> context.span_id,
     flags |-> IF context.sampled THEN "01" ELSE "00"]

\* propagation::ToGrpcTraceBinHeader: version 0, then the fields 0 (trace
\* id), 1 (span id) and 2 (options), each after its field number.
ToGrpcTraceBinHeader(context) ==
    <<0, 0, context.trace_id, 1, context.span_id, 2,
      IF context.sampled THEN 1 ELSE 0>>

\* The number of entries a container holds under one name.
EntriesOf(request_headers, name) ==
    Cardinality({i \in 1..Len(request_headers) : request_headers[i][1] = name})

\* The three steps of Span::injectContext(request_headers).
InjectCloudTraceContext(s, request_headers) ==
    IF drivers[spans[s].oc_config_].propagate_cloud_trace_context
    THEN addCopy(request_headers, "x-cloud-trace-context",
                 ToCloudTraceContextHeader(spans[s].context))
    ELSE request_headers

\* As InjectTraceContext, whatever propagate_trace_context says.
InjectTraceContext_Always(s, request_headers) ==
    addCopy(request_headers, "traceparent", ToTraceParentHeader(spans[s].context))

InjectTraceContext(s, request_headers) ==
    IF drivers[spans[s].oc_config_].propagate_trace_context
    THEN addCopy(request_headers, "traceparent", ToTraceParentHeader(spans[s].context))
    ELSE request_headers

InjectGrpcTraceBin(s, request_headers) ==
    IF drivers[spans[s].oc_config_].propagate_grpc_trace_bin
    THEN addCopy(request_headers, "grpc-trace-bin",
                 ToGrpcTraceBinHeader(spans[s].context))
    ELSE request_headers

\* The container after the three steps.
Injected(s, request_headers) ==
    InjectGrpcTraceBin(s,
        InjectTraceContext(s, InjectCloudTraceContext(s, request_headers)))

\* As injectContext, recording the call on the span as an annotation.
injectContext_Annotates(s) ==
    /\ ~aborted
    /\ s \in 1..Len(spans)
    /\ \A name \in HeaderNames : EntriesOf(headers, name) < MaxHeaderEntries
    /\ headers' = Injected(s, headers)
    /\ spans' = [spans EXCEPT ![s] = AddAnnotation(@, "injectContext", <<>>)]
    /\ UNCHANGED <<aborted, traceParams, exporters, drivers, sink,
                 delivered, unreachable, calls>>

\* Span::injectContext(request_headers)
injectContext(s) ==
    /\ ~aborted
    /\ s \in 1..Len(spans)
    /\ \A name \in HeaderNames : EntriesOf(headers, name) < MaxHeaderEntries
    /\ headers' = Injected(s, headers)
    /\ UNCHANGED <<aborted, traceParams, exporters, drivers, spans, sink,
                 delivered, unreachable, calls>>

\* The host passes another, empty header container from now on.
NewHeaderMap ==
    /\ ~aborted
    /\ headers # <<>>
    /\ headers' = <<>>
    /\ UNCHANGED <<aborted, traceParams, exporters, drivers, spans, sink,
                 delivered, unreachable, calls>>

----------------------------------------------------------------------------
(* The exporters behind the Register() calls of the constructor.           *)

\* The documents export is explored under: every set of exporters, no trace
\* configuration, no propagation format.
ExportOcConfigs ==
    {OcConfigOf(FALSE, NoTraceConfig, exp, {}) : exp \in SUBSET ExporterNames}

\* The handlers the Register() calls have put into the registry.
Handlers == {exporters[k] : k \in 1..Len(exporters)}

\* The backend of exporter e (the Stackdriver project, the Zipkin collector,
\* the standard output) cannot be reached from now on.  Register() opens no
\* connection and returns nothing: it adds the handler all the same, and the
\* failure shows when the handler is asked to export.
BackendUnreachable(e) ==
    /\ ~aborted
    /\ e \notin unreachable
    /\ unreachable' = unreachable \cup {e}
    /\ UNCHANGED <<aborted, traceParams, exporters, drivers, spans, sink, headers,
                   delivered, calls>>

\* As Export, giving up on the span at the first handler that fails.
Export_StopsAtFailure ==
    /\ ~aborted
    /\ sink # <<>>
    /\ exporters # <<>>
    /\ sink' = Tail(sink)
    /\ delivered' =
          [e \in ExporterNames |->
              IF \E k \in 1..Len(exporters) :
                    /\ exporters[k] = e
                    /\ \A j \in 1..k : exporters[j] \notin unreachable
              THEN delivered[e] \cup {Head(sink)}
              ELSE delivered[e]]
    /\ UNCHANGED <<aborted, traceParams, exporters, drivers, spans, headers,
                   unreachable, calls>>

\* The export thread of the library, which the first Register() starts: it
\* takes the next span that Span::End() handed over and calls the handler of
\* every registered exporter with it.  A handler whose backend cannot be
\* reached logs that and keeps nothing; the other handlers are called
\* whatever it did, and nothing is reported to the caller of End().
Export ==
    /\ ~aborted
    /\ sink # <<>>
    /\ exporters # <<>>
    /\ sink' = Tail(sink)
    /\ delivered' =
          [e \in ExporterNames |->
              IF e \in Handlers /\ e \notin unreachable
              THEN delivered[e] \cup {Head(sink)}
              ELSE delivered[e]]
    /\ UNCHANGED <<aborted, traceParams, exporters, drivers, spans, headers,
                   unreachable, calls>>

----------------------------------------------------------------------------
(* Driver::startSpan as the steps one execution context takes through it,  *)
(* for calls that run at the same time.                                    *)

\* The execution contexts (worker threads) that call into one Driver.
Contexts == 1..MaxContexts

\* An execution context that is not inside Driver::startSpan.
NoCall == [pc |-> "idle"]

\* The calls that have not yet started their span.
Starting == {t \in Contexts : calls[t].pc = "StartSpan"}

\* Context t calls Driver::startSpan on Driver d: make_unique<Span> with the
\* arguments of the call and &oc_config_.
startSpan_Call(t, d, operationName, traced) ==
    /\ ~aborted
    /\ calls[t] = NoCall
    /\ d \in 1..Len(drivers)
    /\ Len(spans) + Cardinality(Starting) < MaxSpans
    /\ calls' = [calls EXCEPT ![t] =
                    [pc |-> "StartSpan", oc_config |-> d,
                     operationName |-> operationName, traced |-> traced]]
    /\ UNCHANGED <<aborted, traceParams, exporters, drivers, spans, sink, headers,
                   delivered, unreachable>>

\* The member initializers of Span::Span: span_(StartSpan(operation_name,
\* tracing_decision.traced)), oc_config_(oc_config).
startSpan_StartSpan(t) ==
    /\ ~aborted
    /\ calls[t].pc = "StartSpan"
    /\ CanAddAttribute({}, "OperationName")
    /\ \E sampled \in StartSpanDecisions(StartSpanParent,
                                         StartSpanSampler(calls[t].traced)) :
          spans' = Append(spans, NewSpan(StartSpanParent, sampled, calls[t].oc_config))
    /\ calls' = [calls EXCEPT ![t] =
                    [pc |-> "AddAttribute", oc_config |-> calls[t].oc_config,
                     operationName |-> calls[t].operationName,
                     traced |-> calls[t].traced, span_ |-> Len(spans) + 1]]
    /\ UNCHANGED <<aborted, traceParams, exporters, drivers, sink, headers,
                   delivered, unreachable>>

\* As startSpan_AddAttribute, tagging the span started last in the process
\* instead of the span_ of this call.
startSpan_AddAttribute_LastSpan(t) ==
    /\ ~aborted
    /\ calls[t].pc = "AddAttribute"
    /\ spans' = [spans EXCEPT ![Len(spans)] =
                    AddAttribute(@, "OperationName",
                                 IF calls[t].operationName = "Ingress" THEN "Ingress"
                                 ELSE "Egress")]
    /\ calls' = [calls EXCEPT ![t] = NoCall]
    /\ UNCHANGED <<aborted, traceParams, exporters, drivers, sink, headers,
                   delivered, unreachable>>

\* The body of Span::Span: span_.AddAttribute("OperationName", role); the
\* call then returns the span.
startSpan_AddAttribute(t) ==
    /\ ~aborted
    /\ calls[t].pc = "AddAttribute"
    /\ spans' = [spans EXCEPT ![calls[t].span_] =
                    AddAttribute(@, "OperationName",
                                 IF calls[t].operationName = "Ingress" THEN "Ingress"
                                 ELSE "Egress")]
    /\ calls' = [calls EXCEPT ![t] = NoCall]
    /\ UNCHANGED <<aborted, traceParams, exporters, drivers, sink, headers,
                   delivered, unreachable>>

----------------------------------------------------------------------------
(* Specifications.                                                         *)

Init ==
    /\ aborted = FALSE
    /\ traceParams = DefaultTraceParams
    /\ exporters = <<>>
    /\ drivers = <<>>
    /\ spans = <<>>
    /\ sink = <<>>
    /\ headers = <<>>
    /\ delivered = [e \in ExporterNames |-> {}]
    /\ unreachable = {}
    /\ calls = [t \in Contexts |-> NoCall]

\* The span life cycle under the one Driver Envoy's bootstrap constructs.
Next ==
    \/ \E c \in SpanOcConfigs : DriverConstruct(c, 1)
    \/ \E d \in 1..Len(drivers), r \in OperationNames, t \in BOOLEAN : startSpan(d, r, t)
    \/ \E s \in 1..Len(spans), o \in Operations : setOperation(s, o)
    \/ \E s \in 1..Len(spans), n \in TagNames, v \in TagValues : setTag(s, n, v)
    \/ \E s \in 1..Len(spans), b \in BOOLEAN : setSampled(s, b)
    \/ \E s \in 1..Len(spans) : finishSpan(s)
    \/ \E s \in 1..Len(spans) : spawnChild(s)
    \/ \E s \in 1..Len(spans) : injectContext(s)

Spec == Init /\ [][Next]_vars

\* Header injection under every set of propagation formats.
NextInject ==
    \/ \E c \in InjectOcConfigs : DriverConstruct(c, 1)
    \/ \E d \in 1..Len(drivers), r \in OperationNames, t \in BOOLEAN : startSpan(d, r, t)
    \/ \E s \in 1..Len(spans) : spawnChild(s)
    \/ \E s \in 1..Len(spans) : finishSpan(s)
    \/ \E s \in 1..Len(spans) : injectContext(s)
    \/ NewHeaderMap

SpecInject == Init /\ [][NextInject]_vars

\* Driver construction under every configuration document.
NextDriver ==
    \E c \in DriverOcConfigs : DriverConstruct(c, MaxDrivers)

SpecDriver == Init /\ [][NextDriver]_vars

\* The Drivers of several listeners, each with a document of its own, and the
\* spans started on them; the host passes an empty container to injectContext.
NextListeners ==
    \/ \E c \in ListenerOcConfigs : DriverConstruct(c, MaxListeners)
    \/ \E d \in 1..Len(drivers), r \in OperationNames, t \in BOOLEAN : startSpan(d, r, t)
    \/ \E s \in 1..Len(spans) : spawnChild(s)
    \/ \E s \in 1..Len(spans) : headers = <<>> /\ injectContext(s)
    \/ NewHeaderMap

SpecListeners == Init /\ [][NextListeners]_vars

\* startSpan calls of several execution contexts on one Driver, their steps
\* interleaved.
NextConcurrent ==
    \/ \E c \in SpanOcConfigs : DriverConstruct(c, 1)
    \/ \E t \in Contexts, d \in 1..Len(drivers), r \in OperationNames, b \in BOOLEAN :
          startSpan_Call(t, d, r, b)
    \/ \E t \in Contexts : startSpan_StartSpan(t)
    \/ \E t \in Contexts : startSpan_AddAttribute(t)

SpecConcurrent == Init /\ [][NextConcurrent]_vars

\* Export under every set of exporters, each with a backend that may be out
\* of reach.
NextExport ==
    \/ \E e \in ExporterNames : BackendUnreachable(e)
    \/ \E c \in ExportOcConfigs : DriverConstruct(c, 1)
    \/ \E d \in 1..Len(drivers), r \in OperationNames, t \in BOOLEAN : startSpan(d, r, t)
    \/ \E s \in 1..Len(spans) : finishSpan(s)
    \/ Export

SpecExport == Init /\ [][NextExport]_vars

----------------------------------------------------------------------------
(* Properties.                                                             *)

Last(seq) == seq[Len(seq)]

Roots == {i \in 1..Len(spans) : spans[i].parent = 0}

Children == {i \in 1..Len(spans) : spans[i].parent # 0}

\* C1: finishSpan is idempotent: a finishSpan call on a span that has
\* already ended is a no-op, not a crash: the span's data and the spans
\* handed to the exporters stay as the first call left them, and the process
\* goes on.
C1_FinishSpanIdempotent ==
    [][\A s \in 1..Len(spans) :
          (finishSpan(s) /\ spans[s].has_ended)
              => (spans' = spans /\ sink' = sink /\ ~aborted')]_vars

\* C2: Ended is absorbing and immutable: whatever is called next, a span
\* that has ended stays ended, with the attributes and annotations it had.
C2_EndedIsImmutable ==
    [][\A i \in 1..Len(spans) :
          spans[i].has_ended => (i <= Len(spans') /\ spans'[i] = spans[i])]_vars

\* A child was spawned from a span after that span ended: the ended span
\* holds no "spawnChild" annotation, and its exported record is its data.
C2_Witness ==
    \E c \in Children :
        /\ spans[spans[c].parent].has_ended
        /\ \A j \in 1..Len(spans[spans[c].parent].annotations) :
              spans[spans[c].parent].annotations[j][1] # "spawnChild"
        /\ \E k \in 1..Len(sink) :
              sink[k] = SpanData(spans[c].parent, spans[spans[c].parent])

C3_Enabled(s, name) ==
    CASE name = "x-cloud-trace-context" ->
            drivers[spans[s].oc_config_].propagate_cloud_trace_context
      [] name = "traceparent" -> drivers[spans[s].oc_config_].propagate_trace_context
      [] name = "grpc-trace-bin" -> drivers[spans[s].oc_config_].propagate_grpc_trace_bin

C3_Value(s, name) ==
    CASE name = "x-cloud-trace-context" -> ToCloudTraceContextHeader(spans[s].context)
      [] name = "traceparent" -> ToTraceParentHeader(spans[s].context)
      [] name = "grpc-trace-bin" -> ToGrpcTraceBinHeader(spans[s].context)

\* C3: injectContext on an empty header container leaves exactly one entry
\* for each enabled propagation format, holding the span's context in that
\* format, and no entry for a disabled one.
C3_InjectsExactlyEnabled ==
    [][\A s \in 1..Len(spans) :
          (injectContext(s) /\ headers = <<>>)
              => \A name \in HeaderNames :
                    IF C3_Enabled(s, name)
                    THEN /\ EntriesOf(headers', name) = 1
                         /\ \E i \in 1..Len(headers') :
                               /\ headers'[i][1] = name
                               /\ headers'[i][2] = C3_Value(s, name)
                    ELSE EntriesOf(headers', name) = 0]_vars

\* A container that holds the header of one format and not that of another.
C3_Witness ==
    /\ \E name \in HeaderNames : EntriesOf(headers, name) = 1
    /\ \E name \in HeaderNames : EntriesOf(headers, name) = 0
    /\ \A name \in HeaderNames : EntriesOf(headers, name) <= 1

\* C4: injection is idempotent: injectContext on the container an earlier
\* injectContext of the same span filled leaves that container as it was.
C4_InjectTwiceSameContainer ==
    [][\A s \in 1..Len(spans) :
          (injectContext(s) /\ headers # <<>> /\ headers = Injected(s, <<>>))
              => headers' = headers]_vars

\* C5: the span startSpan returns is a root span that is sampled exactly
\* when the caller's tracing decision is traced, whatever the TraceParams.
C5_ExplicitDecisionHonored ==
    [][\A d \in 1..Len(drivers), r \in OperationNames, t \in BOOLEAN :
          startSpan(d, r, t)
              => /\ Len(spans') = Len(spans) + 1
                 /\ Last(spans').parent = 0
                 /\ Last(spans').context.sampled = t]_vars

\* A sampled root span under a sampling probability of 0, or one that is
\* not sampled under a probability of 1.
C5_Witness ==
    \E i \in Roots :
        \/ spans[i].context.sampled /\ traceParams.sampler.probability = 0
        \/ ~spans[i].context.sampled
              /\ traceParams.sampler.probability = ProbabilityScale

\* The probability the claim names for a sampler selection.
C6_Probability(config) ==
    IF config.sampler_case = "kProbabilitySampler" THEN config.samplingprobability
    ELSE IF config.sampler_case = "kConstantSampler" /\ config.decision
    THEN ProbabilityScale
    ELSE IF config.sampler_case = "kConstantSampler" THEN 0
    ELSE kDefaultSamplingProbability

\* C6: after the construction of a Driver whose document has a trace
\* configuration, the applied probability is the one of its sampler
\* selection (the default for a rate-limiting, unset or unknown sampler)
\* and every exporter the document enables is registered.
C6_SamplerSelectionDegrades ==
    drivers # <<>> /\ Last(drivers).has_trace_config
        => /\ traceParams.sampler.probability = C6_Probability(Last(drivers).trace_config)
           /\ Last(drivers).stdout_exporter_enabled
                 => \E k \in 1..Len(exporters) : exporters[k] = "stdout"
           /\ Last(drivers).stackdriver_exporter_enabled
                 => \E k \in 1..Len(exporters) : exporters[k] = "stackdriver"
           /\ Last(drivers).zipkin_exporter_enabled
                 => \E k \in 1..Len(exporters) : exporters[k] = "zipkin"

\* A Driver constructed with a rate-limiting sampler and the three exporters.
C6_Witness ==
    /\ drivers # <<>>
    /\ Last(drivers).has_trace_config
    /\ Last(drivers).trace_config.sampler_case = "kRateLimitingSampler"
    /\ traceParams.sampler.probability = kDefaultSamplingProbability
    /\ Len(exporters) >= 3

\* C7: the applied sampling probability is within [0,1], a configured
\* probability outside [0,1] being replaced by the default.
C7_ProbabilityInRange ==
    /\ traceParams.sampler.probability \in 0..ProbabilityScale
    /\ (/\ drivers # <<>>
        /\ Last(drivers).has_trace_config
        /\ Last(drivers).trace_config.sampler_case = "kProbabilitySampler"
        /\ Last(drivers).trace_config.samplingprobability \notin 0..ProbabilityScale)
           => traceParams.sampler.probability = kDefaultSamplingProbability

\* C8: no call changes the sampling decision of an existing span, and
\* setSampled changes nothing of its span but the annotations, to which it
\* adds at most the "setSampled" annotation.
C8_SamplingFixedAtCreation ==
    [][/\ \A i \in 1..Len(spans) :
             /\ i <= Len(spans')
             /\ spans'[i].context = spans[i].context
             /\ spans'[i].recording = spans[i].recording
       /\ \A s \in 1..Len(spans), b \in BOOLEAN :
             setSampled(s, b)
                => /\ [spans' EXCEPT ![s].annotations = <<>>]
                        = [spans EXCEPT ![s].annotations = <<>>]
                   /\ spans'[s].annotations
                        \in {spans[s].annotations,
                             Append(spans[s].annotations,
                                    <<"setSampled", <<"sampled", b>>>>)}]_vars

\* A sampled span that holds a setSampled(false) annotation.
C8_Witness ==
    \E i \in 1..Len(spans) :
        /\ spans[i].context.sampled
        /\ \E j \in 1..Len(spans[i].annotations) :
              spans[i].annotations[j] = <<"setSampled", <<"sampled", FALSE>>>>

C9_ConstantFalse ==
    /\ drivers # <<>>
    /\ \A d \in 1..Len(drivers) :
          /\ drivers[d].has_trace_config
          /\ drivers[d].trace_config.sampler_case = "kConstantSampler"
          /\ ~drivers[d].trace_config.decision

C9_NothingSampled(i) ==
    /\ ~spans[i].context.sampled
    /\ spans[i].attributes = {}
    /\ spans[i].annotations = <<>>
    /\ \A k \in 1..Len(sink) : sink[k].span # i

\* C9 as stated: under constant(false), no span created by spawnChild is
\* sampled, records data or is handed to the exporters.
C9_ChildrenNeverSampled ==
    C9_ConstantFalse => \A i \in Children : C9_NothingSampled(i)

\* C9: under constant(false), no span created by spawnChild on a span that
\* is not sampled is sampled, records data or is handed to the exporters,
\* whatever is called on it afterwards.
C9_ChildrenOfUnsampledNeverSampled ==
    C9_ConstantFalse
        => \A i \in Children :
              ~spans[spans[i].parent].context.sampled => C9_NothingSampled(i)

\* Under constant(false), a child of a span that is not sampled.
C9_Witness ==
    /\ C9_ConstantFalse
    /\ \E i \in Children : ~spans[spans[i].parent].context.sampled

RECURSIVE Ancestor(_, _)
\* The n-th span up the parent references of span i, 0 when there is none.
Ancestor(i, n) ==
    IF i = 0 \/ n = 0 THEN i ELSE Ancestor(spans[i].parent, n - 1)

\* C10: the parent of a span spawnChild returns is the span it was called
\* on, which itself gains nothing but the "spawnChild" annotation; the
\* parent of a span startSpan returns is none; and no span is reached
\* again by following the parent references from it.
C10_ParentIsCreator ==
    [][/\ \A s \in 1..Len(spans) :
             spawnChild(s)
                => /\ Last(spans').parent = s
                   /\ [spans'[s] EXCEPT !.annotations = <<>>]
                        = [spans[s] EXCEPT !.annotations = <<>>]
                   /\ spans'[s].annotations
                        \in {spans[s].annotations,
                             Append(spans[s].annotations, <<"spawnChild", <<>>>>)}
       /\ \A d \in 1..Len(drivers), r \in OperationNames, t \in BOOLEAN :
             startSpan(d, r, t) => Last(spans').parent = 0
       /\ \A i \in 1..Len(spans'), n \in 1..Len(spans') :
             Ancestor(i, n)' # i]_vars

\* A span whose parent is a span created before it.
C10_Witness ==
    \E i \in Children :
        /\ spans[i].parent \in 1..Len(spans)
        /\ spans[i].context.trace_id = spans[spans[i].parent].context.trace_id

\* Span i is waiting for the export thread.
C11_HandedOver(i) == \E k \in 1..Len(sink) : sink[k] = SpanData(i, spans[i])

\* C11: a span is exported only after it is finished: every span handed
\* over for export or received by an exporter's handler has been ended by
\* finishSpan and is handed over as it was then, a span that has not been
\* finished is with no exporter, and a sampled span that is finished is
\* waiting for the export thread or has reached the handler of every
\* exporter the Driver registered (which keeps it unless its backend is out
\* of reach).
C11_ExportedOnlyAfterFinish ==
    /\ \A k \in 1..Len(sink) :
          /\ sink[k].span \in 1..Len(spans)
          /\ spans[sink[k].span].has_ended
          /\ sink[k] = SpanData(sink[k].span, spans[sink[k].span])
    /\ \A e \in ExporterNames : \A r \in delivered[e] :
          /\ r.span \in 1..Len(spans)
          /\ spans[r.span].has_ended
          /\ r = SpanData(r.span, spans[r.span])
    /\ \A i \in 1..Len(spans) :
          (spans[i].context.sampled /\ spans[i].has_ended)
              => \/ C11_HandedOver(i)
                 \/ \A e \in Handlers :
                       e \in unreachable \/ SpanData(i, spans[i]) \in delivered[e]

\* The three exporters hold a finished span while another span, not
\* finished, is with none of them.
C11_Witness ==
    /\ Handlers = ExporterNames
    /\ \E i \in 1..Len(spans), j \in 1..Len(spans) :
          /\ spans[i].has_ended
          /\ \A e \in ExporterNames : SpanData(i, spans[i]) \in delivered[e]
          /\ spans[j].context.sampled /\ ~spans[j].has_ended
          /\ \A e \in ExporterNames : \A r \in delivered[e] : r.span # j

\* The exporters a document enables, in the order of the constructor.
C12_Enabled(oc_config) ==
    SelectSeq(<<"stdout", "stackdriver", "zipkin">>,
              LAMBDA e : CASE e = "stdout" -> oc_config.stdout_exporter_enabled
                           [] e = "stackdriver" -> oc_config.stackdriver_exporter_enabled
                           [] e = "zipkin" -> oc_config.zipkin_exporter_enabled)

C13_TraceParamsSetOnce ==
    [][drivers # <<>> => traceParams' = traceParams]_vars

RECURSIVE C18_Root(_)
\* The span startSpan returned from which span i descends.
C18_Root(i) == IF spans[i].parent = 0 THEN i ELSE C18_Root(spans[i].parent)

\* The header names of a container.
C18_Names(request_headers) ==
    {request_headers[k][1] : k \in 1..Len(request_headers)}

\* C18: every span refers to the document of the Driver its root span was
\* started on, and injectContext on it adds entries under exactly the header
\* names injectContext on that root span emits.
C18_ChildPropagatesAsRoot ==
    [][\A s \in 1..Len(spans) :
          injectContext(s)
              => /\ spans[s].oc_config_ = spans[C18_Root(s)].oc_config_
                 /\ C18_Names(SubSeq(headers', Len(headers) + 1, Len(headers')))
                       = C18_Names(Injected(C18_Root(s), <<>>))]_vars

\* A container holds the context of a child whose root was started on a
\* Driver other than the last one, the two differing in their formats.
C18_Witness ==
    \E c \in Children :
        /\ spans[c].oc_config_ # Len(drivers)
        /\ drivers[spans[c].oc_config_].propagate_trace_context
              # Last(drivers).propagate_trace_context
        /\ \E k \in 1..Len(headers) :
              headers[k][2] = C3_Value(c, headers[k][1])

\* C15: injectContext is read-only with respect to span state: it leaves
\* every span (context, sampling decision, attributes, annotations, ended
\* flag, document referred to) and every Driver's document as they were,
\* along with the TraceParams, the exporters and the spans handed over; the
\* header container is all it changes.
C15_InjectContextReadOnly ==
    [][\A s \in 1..Len(spans) :
          injectContext(s)
              => /\ spans' = spans
                 /\ drivers' = drivers
                 /\ traceParams' = traceParams
                 /\ exporters' = exporters
                 /\ sink' = sink
                 /\ aborted' = aborted]_vars

\* A container holds the context of a sampled span that has ended and that
\* of a span that is not sampled, under a document with a format enabled
\* and one disabled.
C15_Witness ==
    /\ \E i \in 1..Len(spans) :
          /\ spans[i].has_ended
          /\ \E k \in 1..Len(headers) : headers[k][2] = C3_Value(i, headers[k][1])
    /\ \E j \in 1..Len(spans) :
          /\ ~spans[j].context.sampled
          /\ \E k \in 1..Len(headers) : headers[k][2] = C3_Value(j, headers[k][1])
    /\ \E n \in HeaderNames : EntriesOf(headers, n) = 0

\* C17: each of the four limits applied to the TraceParams equals the limit
\* the trace configuration carries, those of 2^32 and above included.
C17_LimitsAsConfigured ==
    (drivers # <<>> /\ Last(drivers).has_trace_config)
        => /\ Int64(0, traceParams.max_attributes)
                 = Last(drivers).trace_config.max_number_of_attributes
           /\ Int64(0, traceParams.max_annotations)
                 = Last(drivers).trace_config.max_number_of_annotations
           /\ Int64(0, traceParams.max_message_events)
                 = Last(drivers).trace_config.max_number_of_message_events
           /\ Int64(0, traceParams.max_links)
                 = Last(drivers).trace_config.max_number_of_links

\* C19: startSpan neither reads nor changes the request headers: whatever
\* the container holds, it is left as it was, and the span returned is a
\* root span whose context is a fresh trace id and span id with the
\* sampling decision of the call.
C19_StartSpanIgnoresHeaders ==
    [][\A d \in 1..Len(drivers), r \in OperationNames, t \in BOOLEAN :
          startSpan(d, r, t)
              => /\ headers' = headers
                 /\ Last(spans').parent = 0
                 /\ Last(spans').context
                       = [trace_id |-> Len(spans) + 1, span_id |-> Len(spans) + 1,
                          sampled |-> t]
                 /\ \A i \in 1..Len(spans) :
                       Last(spans').context.trace_id # spans[i].context.trace_id]_vars

\* A container holds the context of a span, and a root span of another
\* trace was started after that span.
C19_Witness ==
    \E i \in 1..Len(spans), j \in Roots :
        /\ i < j
        /\ spans[j].context.trace_id # spans[i].context.trace_id
        /\ \E k \in 1..Len(headers) : headers[k][2] = C3_Value(i, headers[k][1])

====
